---- MODULE Spec2Model ----
(***************************************************************************)
(* truffle-flattener (src/index.js): the dependency graph build, the       *)
(* topological ordering and the emission of the flattened file.            *)
(*                                                                         *)
(* A path is the sequence of its "/"-separated segments, as split("/")     *)
(* gives them: an absolute path starts with the empty segment.  The        *)
(* platform is POSIX (path.sep = "/"), and no segment holds a backslash.   *)
(* A file's contents are the sequence of its lines; a line is a record     *)
(* [kind, arg]: an import statement with its raw path, a version pragma,   *)
(* an experimental pragma, code, or text the parser rejects.               *)
(***************************************************************************)
EXTENDS Naturals, Sequences, FiniteSets, TLC

VARIABLES
    fsys,          \* the file system: concrete absolute path -> contents
    filePaths,     \* flatten's argument: the entry points as the caller gave them
    root,          \* flatten's argument: <<>> (absent) or <<directory>>
    cwd0,          \* the working directory when flatten is called
    cwd,           \* process.cwd()
    pc,            \* "start" | "build" | "emit" | "done"
    truffleRoot,   \* flatten: truffleRoot
    entryPoints,   \* flatten: filePathsFromTruffleRoot
    wd,            \* flatten: wd
    graph,         \* getSortedFilePaths: the tsort graph [keys, nodes]
    visitedFiles,  \* getSortedFilePaths: visitedFiles
    entryIdx,      \* getSortedFilePaths: position of the for loop over entryPoints
    pending,       \* <<>> or <<id>>: the dependenciesDfs call awaiting resolve(id)
    stack,         \* the dependenciesDfs calls in their for loop: [filePath, dependencies, i]
    sortedFiles,   \* flatten: sortedFiles (global names)
    cleanFiles,    \* printConcatenation: the results of the cleanFile promises, by index
    sink,          \* the chunks passed to log, in order
    err            \* the error flatten rejected with: [kind, files]

vars == <<fsys, filePaths, root, cwd0, cwd, pc, truffleRoot, entryPoints, wd, graph,
          visitedFiles, entryIdx, pending, stack, sortedFiles, cleanFiles, sink, err>>

\* ---------------------------------------------------------------- bounds

MaxEntryPoints == 2
MaxImports == 2
MaxDepth == 8

\* ---------------------------------------------------------------- sequences

Range(s) == {s[i] : i \in 1..Len(s)}

IndexOf(s, x) == IF x \in Range(s) THEN CHOOSE i \in 1..Len(s) : s[i] = x /\ \A j \in 1..(i - 1) : s[j] # x ELSE 0

RECURSIVE Flatten(_)
Flatten(ss) == IF ss = <<>> THEN <<>> ELSE Head(ss) \o Flatten(Tail(ss))

\* a Set that keeps every element
uniqueKeepsAll(array) == array

\* [...new Set(array)]: the first occurrence of each element, in order.
unique(array) ==
    LET firsts == SelectSeq([i \in 1..Len(array) |-> i], LAMBDA i : \A j \in 1..(i - 1) : array[j] # array[i])
    IN  [k \in 1..Len(firsts) |-> array[firsts[k]]]

\* ---------------------------------------------------------------- node's path module

IsAbsolute(p) == Len(p) > 0 /\ p[1] = ""

RECURSIVE NormalizeFrom(_, _, _)
NormalizeFrom(p, i, acc) ==
    IF i > Len(p) THEN acc
    ELSE IF p[i] = "." \/ (p[i] = "" /\ i > 1) THEN NormalizeFrom(p, i + 1, acc)
    ELSE IF p[i] = ".." THEN
        IF Len(acc) > 0 /\ acc[Len(acc)] = "" THEN NormalizeFrom(p, i + 1, acc)
        ELSE IF Len(acc) > 0 /\ acc[Len(acc)] # ".." THEN NormalizeFrom(p, i + 1, SubSeq(acc, 1, Len(acc) - 1))
        ELSE NormalizeFrom(p, i + 1, Append(acc, ".."))
    ELSE NormalizeFrom(p, i + 1, Append(acc, p[i]))

\* path.normalize
PathNormalize(p) == NormalizeFrom(p, 1, <<>>)

\* path.join(a, b)
PathJoin(a, b) == PathNormalize(a \o b)

\* path.resolve(p), which reads the process working directory
PathResolve(p, dir) == IF IsAbsolute(p) THEN PathNormalize(p) ELSE PathNormalize(dir \o p)

RECURSIVE CommonPrefixLen(_, _, _)
CommonPrefixLen(a, b, k) ==
    IF k < Len(a) /\ k < Len(b) /\ a[k + 1] = b[k + 1] THEN CommonPrefixLen(a, b, k + 1) ELSE k

\* path.relative(from, to), both absolute
PathRelative(from, to) ==
    LET k == CommonPrefixLen(from, to, 0)
    IN  [i \in 1..(Len(from) - k) |-> ".."] \o SubSeq(to, k + 1, Len(to))

\* ---------------------------------------------------------------- the project on disk

ROOT == <<"", "p">>
ContractsDir == <<"", "p", "contracts">>
OutsideDir == <<"", "o">>
MissingRoot == <<"", "q">>

fileA == <<"", "p", "contracts", "A.sol">>
fileB == <<"", "p", "contracts", "B.sol">>
fileX == <<"", "p", "node_modules", "pkg", "X.sol">>

\* truffle.js lies in the project root
ConfigFiles == {<<"", "p", "truffle.js">>}
ConfigNames == {"truffle.js", "truffle-config.js"}

Directories == {<<"">>, ROOT, ContractsDir, OutsideDir, <<"", "p", "node_modules">>, <<"", "p", "node_modules", "pkg">>}

Line(kind, arg) == [kind |-> kind, arg |-> arg]
ImportLine(path) == Line("import", path)
VersionLine(v) == Line("version", <<v>>)
ExperimentalLine(e) == Line("experimental", <<e>>)
CodeLine(f) == Line("code", <<"contract", f[Len(f)]>>)
GarbageLine == Line("garbage", <<"contract {">>)
BlankLine == Line("blank", <<>>)

\* ---------------------------------------------------------------- errors

NoError == [kind |-> "none", files |-> <<>>]
Error(kind, files) == [kind |-> kind, files |-> files]

\* ---------------------------------------------------------------- resolve

\* resolver.resolve(importPath): the file system resolver looks the path up from
\* the working directory, the node resolver under node_modules.  <<>>: not found.
ResolverResolve(importPath, dir) ==
    LET absolute == PathNormalize(importPath)
        local == PathNormalize(dir \o importPath)
        module == PathNormalize(dir \o <<"node_modules">> \o importPath)
    IN  IF IsAbsolute(importPath) THEN (IF absolute \in DOMAIN fsys THEN <<absolute>> ELSE <<>>)
        ELSE IF local \in DOMAIN fsys THEN <<local>>
        ELSE IF module \in DOMAIN fsys THEN <<module>>
        ELSE <<>>

\* resolve(importPath): the outcomes of the lookup and of fs.readFileSync, which
\* throws when the file cannot be read.
resolve(importPath) ==
    LET found == ResolverResolve(importPath, cwd)
    IN  IF found = <<>> THEN {[ok |-> FALSE, filePath |-> <<>>, fileContents |-> <<>>]}
        ELSE {[ok |-> TRUE, filePath |-> found[1], fileContents |-> fsys[found[1]]],
              [ok |-> FALSE, filePath |-> found[1], fileContents |-> <<>>]}

\* ---------------------------------------------------------------- the graph build

getDirPath(filePath) == SubSeq(filePath, 1, Len(filePath) - 1)

getNormalizedDependencyPath(dependency, filePath) ==
    IF Len(dependency) > 1 /\ dependency[1] \in {".", ".."}
    THEN PathNormalize(PathJoin(getDirPath(filePath), dependency))
    ELSE dependency

\* parser.parse throws on text that is no Solidity
ParseFails(fileContents) == \E i \in 1..Len(fileContents) : fileContents[i].kind = "garbage"

getDependencies(filePath, fileContents) ==
    LET directives == SelectSeq(fileContents, LAMBDA l : l.kind = "import")
    IN  [i \in 1..Len(directives) |-> getNormalizedDependencyPath(directives[i].arg, filePath)]

\* tsort(): graph.add(a, b) makes both nodes, in this order, and records a under b
EmptyGraph == [keys |-> <<>>, nodes |-> <<>>]

GraphWithNode(g, n) ==
    IF n \in Range(g.keys) THEN g ELSE [keys |-> Append(g.keys, n), nodes |-> Append(g.nodes, <<>>)]

GraphAdd(g, a, b) ==
    LET g2 == GraphWithNode(GraphWithNode(g, a), b)
        ib == IndexOf(g2.keys, b)
    IN  [g2 EXCEPT !.nodes[ib] = Append(@, a)]

GraphChildren(g, n) == g.nodes[IndexOf(g.keys, n)]

\* graph.sort(): depth first, a node after the nodes recorded under it; a node met
\* again while it is being visited is a cycle.
RECURSIVE GraphVisit(_, _, _)
RECURSIVE GraphVisitAll(_, _, _, _)
GraphVisit(g, node, st) ==
    IF st.cycle THEN st
    ELSE IF node \in st.temp THEN [st EXCEPT !.cycle = TRUE]
    ELSE IF node \in Range(st.sorted) THEN st
    ELSE LET inner == GraphVisitAll(g, GraphChildren(g, node), 1, [st EXCEPT !.temp = @ \cup {node}])
         IN  IF inner.cycle THEN inner
             ELSE [inner EXCEPT !.temp = @ \ {node}, !.sorted = Append(@, node)]

GraphVisitAll(g, nodes, i, st) ==
    IF i > Len(nodes) \/ st.cycle THEN st
    ELSE GraphVisitAll(g, nodes, i + 1, GraphVisit(g, nodes[i], st))

GraphSort(g) == GraphVisitAll(g, g.keys, 1, [sorted |-> <<>>, temp |-> {}, cycle |-> FALSE])

\* ---------------------------------------------------------------- global names

getFilePathsFromTruffleRoot(paths, tRoot, dir) ==
    [i \in 1..Len(paths) |-> PathRelative(tRoot, PathResolve(paths[i], dir))]

\* globalName.indexOf("node_modules/"): 0 when absent
NodeModulesIndex(globalName) ==
    IF \E i \in 1..(Len(globalName) - 1) : globalName[i] = "node_modules"
    THEN CHOOSE i \in 1..(Len(globalName) - 1) :
            globalName[i] = "node_modules" /\ \A j \in 1..(i - 1) : globalName[j] # "node_modules"
    ELSE 0

fileNameToGlobalName(fileName, tRoot, dir) ==
    LET globalName == getFilePathsFromTruffleRoot(<<fileName>>, tRoot, dir)[1]
        at == NodeModulesIndex(globalName)
    IN  IF at # 0 THEN SubSeq(globalName, at + 1, Len(globalName)) ELSE globalName

\* ---------------------------------------------------------------- flatten

RECURSIVE findUp(_)
findUp(dir) ==
    IF \E n \in ConfigNames : Append(dir, n) \in ConfigFiles
    THEN <<Append(dir, CHOOSE n \in ConfigNames : Append(dir, n) \in ConfigFiles)>>
    ELSE IF Len(dir) <= 1 THEN <<>>
    ELSE findUp(getDirPath(dir))

\* flatten, to the first await of getSortedFilePaths
FlattenStart ==
    /\ pc = "start"
    /\ IF root # <<>> /\ root[1] \notin Directories THEN
           /\ pc' = "done"
           /\ err' = Error("root", <<>>)
           /\ UNCHANGED <<truffleRoot, entryPoints, wd, cwd>>
       ELSE IF root = <<>> /\ findUp(cwd) = <<>> THEN
           /\ pc' = "done"
           /\ err' = Error("notruffle", <<>>)
           /\ UNCHANGED <<truffleRoot, entryPoints, wd, cwd>>
       ELSE
           LET tRoot == IF root # <<>> THEN root[1] ELSE getDirPath(findUp(cwd)[1])
           IN  /\ truffleRoot' = tRoot
               /\ entryPoints' = getFilePathsFromTruffleRoot(filePaths, tRoot, cwd)
               /\ wd' = cwd
               /\ cwd' = tRoot
               /\ pc' = "build"
               /\ UNCHANGED err
    /\ UNCHANGED <<fsys, filePaths, root, cwd0, graph, visitedFiles, entryIdx, pending,
                   stack, sortedFiles, cleanFiles, sink>>

\* dependenciesDfs that does not mark the file visited
DfsEnterUnmarked(filePath) ==
    /\ Len(stack) < MaxDepth
    /\ visitedFiles' = visitedFiles
    /\ pending' = <<filePath>>

\* dependenciesDfs, to its await: the file is marked visited and its resolution starts
DfsEnter(filePath) ==
    /\ Len(stack) < MaxDepth
    /\ visitedFiles' = Append(visitedFiles, filePath)
    /\ pending' = <<filePath>>

\* getSortedFilePaths: the for loop calls dependenciesDfs on the next entry point
EntryPointLoop ==
    /\ pc = "build" /\ pending = <<>> /\ stack = <<>>
    /\ entryIdx <= Len(entryPoints)
    /\ DfsEnter(entryPoints[entryIdx])
    /\ entryIdx' = entryIdx + 1
    /\ UNCHANGED <<fsys, filePaths, root, cwd0, cwd, pc, truffleRoot, entryPoints, wd, graph,
                   stack, sortedFiles, cleanFiles, sink, err>>

\* dependenciesDfs after its await: resolve has settled; the imports are extracted
\* and the for loop over them begins.  An error rejects flatten.
DfsResolved ==
    /\ pc = "build" /\ pending # <<>>
    /\ \E resolved \in resolve(pending[1]) :
        IF ~resolved.ok THEN
            /\ pc' = "done"
            /\ err' = Error("resolve", <<pending[1]>>)
            /\ UNCHANGED <<stack, pending>>
        ELSE IF ParseFails(resolved.fileContents) THEN
            /\ pc' = "done"
            /\ err' = Error("parse", <<resolved.filePath>>)
            /\ UNCHANGED <<stack, pending>>
        ELSE
            /\ stack' = Append(stack, [filePath |-> pending[1],
                                       dependencies |-> getDependencies(resolved.filePath, resolved.fileContents),
                                       i |-> 1])
            /\ pending' = <<>>
            /\ UNCHANGED <<pc, err>>
    /\ UNCHANGED <<fsys, filePaths, root, cwd0, cwd, truffleRoot, entryPoints, wd, graph,
                   visitedFiles, entryIdx, sortedFiles, cleanFiles, sink>>

\* the for loop recording the edge only of a dependency it then traverses
DfsLoopEdgeIfNew ==
    /\ pc = "build" /\ pending = <<>> /\ stack # <<>>
    /\ LET top == stack[Len(stack)]
       IN  /\ top.i <= Len(top.dependencies)
           /\ LET dependency == top.dependencies[top.i]
              IN  /\ stack' = [stack EXCEPT ![Len(stack)].i = @ + 1]
                  /\ IF dependency \notin Range(visitedFiles)
                     THEN graph' = GraphAdd(graph, dependency, top.filePath) /\ DfsEnter(dependency)
                     ELSE UNCHANGED <<graph, visitedFiles, pending>>
    /\ UNCHANGED <<fsys, filePaths, root, cwd0, cwd, pc, truffleRoot, entryPoints, wd,
                   entryIdx, sortedFiles, cleanFiles, sink, err>>

\* one round of the for loop of dependenciesDfs
DfsLoop ==
    /\ pc = "build" /\ pending = <<>> /\ stack # <<>>
    /\ LET top == stack[Len(stack)]
       IN  /\ top.i <= Len(top.dependencies)
           /\ LET dependency == top.dependencies[top.i]
              IN  /\ graph' = GraphAdd(graph, dependency, top.filePath)
                  /\ stack' = [stack EXCEPT ![Len(stack)].i = @ + 1]
                  /\ IF dependency \notin Range(visitedFiles)
                     THEN DfsEnter(dependency)
                     ELSE UNCHANGED <<visitedFiles, pending>>
    /\ UNCHANGED <<fsys, filePaths, root, cwd0, cwd, pc, truffleRoot, entryPoints, wd,
                   entryIdx, sortedFiles, cleanFiles, sink, err>>

\* dependenciesDfs returns
DfsReturn ==
    /\ pc = "build" /\ pending = <<>> /\ stack # <<>>
    /\ stack[Len(stack)].i > Len(stack[Len(stack)].dependencies)
    /\ stack' = SubSeq(stack, 1, Len(stack) - 1)
    /\ UNCHANGED <<fsys, filePaths, root, cwd0, cwd, pc, truffleRoot, entryPoints, wd, graph,
                   visitedFiles, entryIdx, pending, sortedFiles, cleanFiles, sink, err>>

PendingClean == [state |-> "pending", clean |-> <<>>, version |-> <<>>, experimentals |-> <<>>]

\* the entry points put before the sorted files
withEntriesFirst(sorted) ==
    LET all == entryPoints \o sorted
    IN  [i \in 1..Len(all) |-> fileNameToGlobalName(all[i], truffleRoot, cwd)]

\* topologicalSortedFiles.concat(entryPoints).map(fileNameToGlobalName)
withEntries(sorted) ==
    LET all == sorted \o entryPoints
    IN  [i \in 1..Len(all) |-> fileNameToGlobalName(all[i], truffleRoot, cwd)]

\* getSortedFilePaths after the loop, and printConcatenation to its await: the
\* cleanFile promises are started
SortFiles ==
    /\ pc = "build" /\ pending = <<>> /\ stack = <<>>
    /\ entryIdx > Len(entryPoints)
    /\ LET res == GraphSort(graph)
       IN  IF res.cycle THEN
               /\ pc' = "done"
               /\ err' = Error("cycle", visitedFiles)
               /\ UNCHANGED <<sortedFiles, cleanFiles>>
           ELSE
               /\ sortedFiles' = unique(withEntries(res.sorted))
               /\ cleanFiles' = [i \in 1..Len(unique(withEntries(res.sorted))) |-> PendingClean]
               /\ pc' = "emit"
               /\ UNCHANGED err
    /\ UNCHANGED <<fsys, filePaths, root, cwd0, cwd, truffleRoot, entryPoints, wd, graph,
                   visitedFiles, entryIdx, pending, stack, sink>>

\* ---------------------------------------------------------------- emission

IsPragmaOrImport(l) == l.kind \in {"import", "version", "experimental"}

RECURSIVE TrimStart(_)
TrimStart(lines) ==
    IF lines # <<>> /\ Head(lines).kind = "blank" THEN TrimStart(Tail(lines)) ELSE lines

RECURSIVE TrimEnd(_)
TrimEnd(lines) ==
    IF lines # <<>> /\ lines[Len(lines)].kind = "blank" THEN TrimEnd(SubSeq(lines, 1, Len(lines) - 1)) ELSE lines

\* String.prototype.trim on the lines of a text
Trim(lines) == TrimEnd(TrimStart(lines))

\* contents.match(VERSION_SOLIDITY_REGEX) || []
MatchVersion(contents) == SelectSeq(contents, LAMBDA l : l.kind = "version")

\* contents.match(EXPERIMENTAL_SOLIDITY_REGEX) || []
MatchExperimental(contents) == SelectSeq(contents, LAMBDA l : l.kind = "experimental")

\* the three replace calls and trim: a matched line is emptied, its line break
\* stays.  (The files here hold no blank or indented lines, the only lines on
\* which the \s* of IMPORT_SOLIDITY_REGEX would take more than the import.)
StripContents(contents) ==
    Trim([i \in 1..Len(contents) |-> IF IsPragmaOrImport(contents[i]) THEN BlankLine ELSE contents[i]])

\* cleanFile after its await, on the contents resolve gave
cleanFileResult(contents) ==
    [state |-> "done", clean |-> StripContents(contents), version |-> MatchVersion(contents),
     experimentals |-> MatchExperimental(contents)]

\* results kept in the order the promises settle in
ResultSlotByCompletion(i, order) == order

\* the slot of Promise.all that the i-th promise fills
ResultSlot(i, order) == i

\* cleanFile logging a file's version pragma as soon as the file is read
cleanFileLogging(i) ==
    /\ pc = "emit"
    /\ i \in 1..Len(cleanFiles)
    /\ cleanFiles[i].state = "pending"
    /\ \E resolved \in resolve(sortedFiles[i]) :
        IF ~resolved.ok THEN
            /\ pc' = "done"
            /\ err' = Error("resolve", <<sortedFiles[i]>>)
            /\ UNCHANGED <<cleanFiles, sink>>
        ELSE
            /\ cleanFiles' = [cleanFiles EXCEPT ![i] = cleanFileResult(resolved.fileContents)]
            /\ sink' = sink \o [k \in 1..Len(MatchVersion(resolved.fileContents)) |-> <<MatchVersion(resolved.fileContents)[k]>>]
            /\ UNCHANGED <<pc, err>>
    /\ UNCHANGED <<fsys, filePaths, root, cwd0, cwd, truffleRoot, entryPoints, wd, graph,
                   visitedFiles, entryIdx, pending, stack, sortedFiles>>

\* cleanFile(files[i]) settles; a rejection rejects Promise.all, and flatten with it
cleanFile(i) ==
    /\ pc = "emit"
    /\ i \in 1..Len(cleanFiles)
    /\ cleanFiles[i].state = "pending"
    /\ \E resolved \in resolve(sortedFiles[i]) :
        IF ~resolved.ok THEN
            /\ pc' = "done"
            /\ err' = Error("resolve", <<sortedFiles[i]>>)
            /\ UNCHANGED <<cleanFiles, sink>>
        ELSE
            /\ cleanFiles' = [cleanFiles EXCEPT
                    ![ResultSlot(i, Cardinality({j \in 1..Len(cleanFiles) : cleanFiles[j].state = "done"}) + 1)]
                        = cleanFileResult(resolved.fileContents)]
            /\ UNCHANGED <<pc, err, sink>>
    /\ UNCHANGED <<fsys, filePaths, root, cwd0, cwd, truffleRoot, entryPoints, wd, graph,
                   visitedFiles, entryIdx, pending, stack, sortedFiles>>

FileMarker(name) == Line("marker", name)

\* `${output_acc}\n// File: ${files[i]}\n${output}`, from the empty string
RECURSIVE ConcatOutput(_, _, _)
ConcatOutput(files, cleaned, n) ==
    IF n = 0 THEN <<BlankLine>>
    ELSE ConcatOutput(files, cleaned, n - 1)
         \o <<FileMarker(files[n])>>
         \o (IF cleaned[n].clean = <<>> THEN <<BlankLine>> ELSE cleaned[n].clean)

AllVersions(cleaned) == Flatten([i \in 1..Len(cleaned) |-> cleaned[i].version])

AllExperimentals(cleaned) == Flatten([i \in 1..Len(cleaned) |-> cleaned[i].experimentals])

\* the last version pragma met
PickLastVersion(versions) == versions[Len(versions)]

\* the version printConcatenation logs: versions[0]
PickVersion(versions) == versions[1]

\* the chunks printConcatenation passes to log, in order
LoggedChunks(files, cleaned) ==
    (IF Len(AllVersions(cleaned)) > 0 THEN <<<<PickVersion(AllVersions(cleaned))>>>> ELSE <<>>)
    \o [i \in 1..Len(unique(AllExperimentals(cleaned))) |-> <<unique(AllExperimentals(cleaned))[i]>>]
    \o <<ConcatOutput(files, cleaned, Len(files))>>

\* printConcatenation after Promise.all, and the end of flatten
printConcatenation ==
    /\ pc = "emit"
    /\ \A i \in 1..Len(cleanFiles) : cleanFiles[i].state = "done"
    /\ sink' = sink \o LoggedChunks(sortedFiles, cleanFiles)
    /\ cwd' = wd
    /\ pc' = "done"
    /\ UNCHANGED <<fsys, filePaths, root, cwd0, truffleRoot, entryPoints, wd, graph,
                   visitedFiles, entryIdx, pending, stack, sortedFiles, cleanFiles, err>>

Next ==
    \/ FlattenStart
    \/ EntryPointLoop
    \/ DfsResolved
    \/ DfsLoop
    \/ DfsReturn
    \/ SortFiles
    \/ \E i \in 1..Len(cleanFiles) : cleanFile(i)
    \/ printConcatenation

\* ---------------------------------------------------------------- the inputs

SeqsUpTo(S, n) == UNION {[1..k -> S] : k \in 0..n}

NoRepeat(s) == \A i, j \in 1..Len(s) : s[i] = s[j] => i = j

RawImports == {<<".", "A.sol">>, <<".", "B.sol">>, <<"pkg", "X.sol">>}

PackageImports == {<<>>, <<<<".", "X.sol">>>>, <<<<"..", "..", "contracts", "A.sol">>>>}

ImportLists == {s \in SeqsUpTo(RawImports, MaxImports) : NoRepeat(s)}

Contents(f, versions, experimentals, imports) ==
    [i \in 1..Len(versions) |-> VersionLine(versions[i])]
    \o [i \in 1..Len(experimentals) |-> ExperimentalLine(experimentals[i])]
    \o [i \in 1..Len(imports) |-> ImportLine(imports[i])]
    \o <<CodeLine(f)>>

InitRun ==
    /\ cwd = cwd0
    /\ pc = "start"
    /\ truffleRoot = <<>>
    /\ entryPoints = <<>>
    /\ wd = <<>>
    /\ graph = EmptyGraph
    /\ visitedFiles = <<>>
    /\ entryIdx = 1
    /\ pending = <<>>
    /\ stack = <<>>
    /\ sortedFiles = <<>>
    /\ cleanFiles = <<>>
    /\ sink = <<>>
    /\ err = NoError

\* every import structure over the three files, flattened from the project root
InitGraph ==
    /\ \E ia, ib \in ImportLists, ix \in PackageImports :
        fsys = (fileA :> Contents(fileA, <<"pragma solidity ^0.4.0;">>, <<>>, ia))
            @@ (fileB :> Contents(fileB, <<"pragma solidity ^0.5.0;">>, <<>>, ib))
            @@ (fileX :> Contents(fileX, <<>>, <<>>, ix))
    /\ filePaths \in SeqsUpTo({<<"contracts", "A.sol">>, <<"contracts", "B.sol">>}, MaxEntryPoints)
    /\ root = <<>>
    /\ cwd0 = ROOT
    /\ InitRun

VersionChoices == {<<>>, <<"pragma solidity ^0.4.0;">>, <<"pragma solidity ^0.5.0;">>}

ExperimentalChoices ==
    {<<>>, <<"pragma experimental ABIEncoderV2;">>,
     <<"pragma experimental SMTChecker;", "pragma experimental ABIEncoderV2;">>}

\* every placement of pragmas over a few import structures
InitPragma ==
    /\ \E va, vb \in VersionChoices, ea, eb \in ExperimentalChoices,
          ex \in {<<>>, <<"pragma experimental SMTChecker;">>},
          ia \in {<<<<".", "B.sol">>>>, <<<<".", "B.sol">>, <<"pkg", "X.sol">>>>},
          ib \in {<<>>, <<<<"pkg", "X.sol">>>>} :
        fsys = (fileA :> Contents(fileA, va, ea, ia))
            @@ (fileB :> Contents(fileB, vb, eb, ib))
            @@ (fileX :> Contents(fileX, <<>>, ex, <<>>))
    /\ filePaths \in {<<<<"contracts", "A.sol">>>>,
                      <<<<"contracts", "B.sol">>, <<"contracts", "A.sol">>>>,
                      <<<<"contracts", "A.sol">>, <<"node_modules", "pkg", "X.sol">>>>}
    /\ root = <<>>
    /\ cwd0 = ROOT
    /\ InitRun

EnvContents ==
    {  (fileA :> Contents(fileA, <<>>, <<>>, <<<<".", "B.sol">>>>))
    @@ (fileB :> Contents(fileB, <<>>, <<>>, <<>>))
    @@ (fileX :> Contents(fileX, <<>>, <<>>, <<>>)),
       (fileA :> Contents(fileA, <<>>, <<>>, <<<<".", "B.sol">>>>))
    @@ (fileB :> Contents(fileB, <<>>, <<>>, <<<<".", "A.sol">>>>))
    @@ (fileX :> Contents(fileX, <<>>, <<>>, <<>>)),
       (fileA :> Contents(fileA, <<>>, <<>>, <<<<".", "Missing.sol">>>>))
    @@ (fileB :> Contents(fileB, <<>>, <<>>, <<>>))
    @@ (fileX :> Contents(fileX, <<>>, <<>>, <<>>)),
       (fileA :> Contents(fileA, <<>>, <<>>, <<<<"contracts", "B.sol">>>>))
    @@ (fileB :> Contents(fileB, <<>>, <<>>, <<>>))
    @@ (fileX :> Contents(fileX, <<>>, <<>>, <<>>)),
       (fileA :> Contents(fileA, <<>>, <<>>, <<<<".", "B.sol">>>>))
    @@ (fileB :> <<GarbageLine>>)
    @@ (fileX :> Contents(fileX, <<>>, <<>>, <<>>)) }

\* the caller's working directory, root argument and spelling of the entry points
InitEnv ==
    /\ fsys \in EnvContents
    /\ cwd0 \in {ROOT, ContractsDir, OutsideDir}
    /\ root \in {<<>>, <<ROOT>>, <<MissingRoot>>}
    /\ filePaths \in SeqsUpTo({PathRelative(cwd0, fileA), <<".">> \o PathRelative(cwd0, fileB)}, MaxEntryPoints)
    /\ InitRun

Init == InitGraph \/ InitPragma \/ InitEnv

Spec == Init /\ [][Next]_vars

\* import structures with cycles and self imports, flattened from the project root
InitCycles ==
    /\ \E ia, ib \in ImportLists :
        fsys = (fileA :> Contents(fileA, <<>>, <<>>, ia))
            @@ (fileB :> Contents(fileB, <<>>, <<>>, ib))
            @@ (fileX :> Contents(fileX, <<>>, <<>>, <<<<".", "X.sol">>>>))
    /\ filePaths \in {s \in SeqsUpTo({<<"contracts", "A.sol">>, <<"contracts", "B.sol">>}, MaxEntryPoints) : Len(s) >= 1 /\ NoRepeat(s)}
    /\ root = <<>>
    /\ cwd0 = ROOT
    /\ InitRun

\* the graph build is a chain of awaited steps: a step that can run does run
FairSpec == InitCycles /\ [][Next]_vars /\ WF_vars(Next)

\* ---------------------------------------------------------------- what the properties speak of

Success == pc = "done" /\ err = NoError

\* the file an identifier or a global name denotes while flatten runs in truffleRoot
FileOf(id) == ResolverResolve(id, truffleRoot)

GlobalNameOf(id) == fileNameToGlobalName(id, truffleRoot, truffleRoot)

\* the identifiers a traversed identifier imports, read off the file system
ImportsOf(id) ==
    LET file == FileOf(id)
    IN  IF file = <<>> THEN <<>>
        ELSE IF ParseFails(fsys[file[1]]) THEN <<>>
        ELSE getDependencies(file[1], fsys[file[1]])

\* the files a file imports
FileImports(f) == UNION {Range(FileOf(d)) : d \in Range(ImportsOf(f))}

\* the import relation over the files on disk
ImportRelation == [f \in DOMAIN fsys |-> FileImports(f)]

RECURSIVE ReachableVia(_, _)
ReachableVia(imports, S) ==
    LET more == S \cup UNION {imports[f] : f \in S}
    IN  IF more = S THEN S ELSE ReachableVia(imports, more)

ReachableFrom(S) == ReachableVia(ImportRelation, S)

EntryFiles == UNION {Range(FileOf(e)) : e \in Range(entryPoints)}

\* the import graph reachable from the entry points has a cycle
HasCycle ==
    LET imports == ImportRelation
    IN  \E f \in ReachableVia(imports, EntryFiles) : f \in ReachableVia(imports, imports[f])

\* the last chunk, and the names of its '// File:' markers in order
OutputChunk == sink[Len(sink)]

MarkerNames(chunk) ==
    LET markers == SelectSeq(chunk, LAMBDA l : l.kind = "marker")
    IN  [i \in 1..Len(markers) |-> markers[i].arg]

\* the body resolve and the three regular expressions leave of a global name
BodyOf(name) ==
    LET clean == StripContents(fsys[FileOf(name)[1]])
    IN  IF clean = <<>> THEN <<BlankLine>> ELSE clean

BodyFollowsMarker(chunk, name) ==
    LET at == IndexOf(chunk, FileMarker(name))
    IN  /\ at > 0
        /\ at + Len(BodyOf(name)) <= Len(chunk)
        /\ SubSeq(chunk, at + 1, at + Len(BodyOf(name))) = BodyOf(name)
        /\ (at + Len(BodyOf(name)) < Len(chunk) => chunk[at + Len(BodyOf(name)) + 1].kind = "marker")

Occurrences(s, x) == Cardinality({i \in 1..Len(s) : s[i] = x})

LinesOfKind(chunks, kind) == SelectSeq(Flatten(chunks), LAMBDA l : l.kind = kind)

\* ---------------------------------------------------------------- C1

\* C1: on a successful flatten, for every import edge (dependency d, dependent t)
\* of the build, the '// File:' marker and the body of d's global name lie strictly
\* before the marker and the body of t's global name in the emitted output.
C1_DependencyBeforeDependent ==
    Success =>
        \A t \in Range(visitedFiles) : \A d \in Range(ImportsOf(t)) :
            /\ BodyFollowsMarker(OutputChunk, GlobalNameOf(d))
            /\ BodyFollowsMarker(OutputChunk, GlobalNameOf(t))
            /\ IndexOf(OutputChunk, FileMarker(GlobalNameOf(d))) + Len(BodyOf(GlobalNameOf(d)))
                    < IndexOf(OutputChunk, FileMarker(GlobalNameOf(t)))

\* a successful flatten of two entry points over three files with a chain of imports
C1_Witness ==
    /\ Success
    /\ Len(entryPoints) = 2 /\ entryPoints[1] # entryPoints[2]
    /\ Len(sortedFiles) = 3
    /\ \E t, u \in Range(visitedFiles) : \E d \in Range(ImportsOf(t)) :
            d = u /\ ImportsOf(u) # <<>>

\* ---------------------------------------------------------------- C2

\* C2: in the list getSortedFilePaths returns, and in the markers emitted from it,
\* the global name of every entry point and of every file discovered through
\* imports occurs exactly once, also under shared dependencies and for an entry
\* point that never became a node of the graph.
C2_EachFileExactlyOnce ==
    /\ (pc = "emit" \/ Success) =>
            /\ \A i, j \in 1..Len(sortedFiles) : sortedFiles[i] = sortedFiles[j] => i = j
            /\ \A id \in Range(entryPoints) \cup Range(visitedFiles) \cup Range(graph.keys) :
                    Occurrences(sortedFiles, GlobalNameOf(id)) = 1
    /\ Success => MarkerNames(OutputChunk) = sortedFiles

\* the list is returned for a dependency imported by two files and an entry point
\* that is no node of the graph
C2_Witness ==
    /\ pc = "emit"
    /\ \E d \in Range(graph.keys) : \E a, b \in Range(graph.keys) :
            a # b /\ d \in Range(GraphChildren(graph, a)) /\ d \in Range(GraphChildren(graph, b))
    /\ \E e \in Range(entryPoints) : e \notin Range(graph.keys)

\* ---------------------------------------------------------------- C3

\* C3: whenever the import graph reachable from the entry points contains a cycle
\* (and every file of it is resolved and parsed), flatten fails with the cycle
\* error, which lists the files visited during the traversal, and the sink is
\* never called.
C3_CycleFails ==
    ((sink # <<>> \/ pc \in {"emit", "done"}) /\ HasCycle) =>
        /\ sink = <<>>
        /\ pc = "done"
        /\ err.kind \notin {"resolve", "parse"} =>
                /\ err = Error("cycle", visitedFiles)
                /\ \A f \in ReachableFrom(EntryFiles) : \E v \in Range(err.files) : FileOf(v) = <<f>>

\* flatten has failed on A importing B importing A
C3_Witness ==
    /\ pc = "done" /\ err.kind = "cycle"
    /\ Cardinality(ReachableFrom(EntryFiles)) >= 2
    /\ \E f \in EntryFiles : \E g \in FileImports(f) : g # f /\ f \in FileImports(g)

\* ---------------------------------------------------------------- C4

\* the only entry point F1 has version pragma v1 and imports just F2, which has
\* version pragma v2 and no imports
PragmaScenario(v1, v2) ==
    /\ Len(entryPoints) = 1
    /\ FileOf(entryPoints[1]) # <<>>
    /\ LET f1 == FileOf(entryPoints[1])[1]
       IN  /\ MatchVersion(fsys[f1]) = <<v1>>
           /\ \E f2 \in FileImports(f1) :
                /\ FileImports(f1) = {f2}
                /\ f2 # f1
                /\ Len(ImportsOf(f1)) = 1
                /\ ImportsOf(f2) = <<>>
                /\ MatchVersion(fsys[f2]) = <<v2>>

VersionLines == {VersionLine(v[1]) : v \in VersionChoices \ {<<>>}}

\* C4 as stated: the one version pragma line of the output is V1, that of the
\* entry point F1, and V2 does not occur.
C4_Original ==
    \A v1, v2 \in VersionLines :
        (Success /\ v1 # v2 /\ PragmaScenario(v1, v2)) =>
            /\ LinesOfKind(sink, "version") = <<v1>>
            /\ Occurrences(Flatten(sink), v2) = 0

\* C4, amended: the one version pragma line of the output is V2, that of the
\* imported file F2, which is first in sort order; it is the first chunk, and V1
\* does not occur.
C4_FirstInSortOrder ==
    \A v1, v2 \in VersionLines :
        (Success /\ v1 # v2 /\ PragmaScenario(v1, v2)) =>
            /\ LinesOfKind(sink, "version") = <<v2>>
            /\ sink[1] = <<v2>>
            /\ Occurrences(Flatten(sink), v1) = 0

\* the scenario of C4 has been flattened
C4_Witness ==
    \E v1, v2 \in VersionLines : Success /\ v1 # v2 /\ PragmaScenario(v1, v2)

\* ---------------------------------------------------------------- C5

\* C5: the sink has received a chunk only when flatten has completed without an
\* error; an invocation that fails, at any point, has passed nothing to the sink.
C5_AllOrNothing ==
    /\ sink # <<>> => Success
    /\ err # NoError => pc = "done" /\ sink = <<>>

\* flatten has failed re-resolving a file for emission, after another file was read
C5_Witness ==
    /\ pc = "done" /\ err.kind = "resolve"
    /\ \E i, j \in 1..Len(cleanFiles) : cleanFiles[i].state = "done" /\ cleanFiles[j].state = "pending"
    /\ sink = <<>>

\* ---------------------------------------------------------------- C6

ContentsOfSorted(i) == fsys[FileOf(sortedFiles[i])[1]]

FilesWithVersion == {i \in 1..Len(sortedFiles) : MatchVersion(ContentsOfSorted(i)) # <<>>}

ExperimentalSet == UNION {Range(MatchExperimental(ContentsOfSorted(i))) : i \in 1..Len(sortedFiles)}

\* where a pragma line first appears: the first file in sort order holding it,
\* and its line there
FirstFile(line) == CHOOSE i \in 1..Len(sortedFiles) :
    /\ line \in Range(ContentsOfSorted(i))
    /\ \A j \in 1..(i - 1) : line \notin Range(ContentsOfSorted(j))

AppearsBefore(l1, l2) ==
    \/ FirstFile(l1) < FirstFile(l2)
    \/ /\ FirstFile(l1) = FirstFile(l2)
       /\ IndexOf(ContentsOfSorted(FirstFile(l1)), l1) < IndexOf(ContentsOfSorted(FirstFile(l1)), l2)

VersionChunks == IF FilesWithVersion = {} THEN 0 ELSE 1

\* C6: on a successful flatten the chunks are: the version pragma line of the
\* first file in sort order that has one, if any; each distinct experimental
\* pragma line once, in order of first appearance; and one final chunk of the
\* bodies in sort order, each after its marker.
C6_ChunkSequence ==
    Success =>
        /\ Len(sink) = VersionChunks + Cardinality(ExperimentalSet) + 1
        /\ FilesWithVersion # {} =>
                \E i \in FilesWithVersion :
                    /\ \A j \in FilesWithVersion : i <= j
                    /\ sink[1] = <<MatchVersion(ContentsOfSorted(i))[1]>>
        /\ \A k \in 1..Cardinality(ExperimentalSet) :
                /\ Len(sink[VersionChunks + k]) = 1
                /\ sink[VersionChunks + k][1] \in ExperimentalSet
                /\ \A m \in 1..(k - 1) :
                        /\ sink[VersionChunks + m] # sink[VersionChunks + k]
                        /\ AppearsBefore(sink[VersionChunks + m][1], sink[VersionChunks + k][1])
        /\ MarkerNames(OutputChunk) = sortedFiles
        /\ OutputChunk[1] = BlankLine
        /\ Len(OutputChunk) = 1 + Len(Flatten([i \in 1..Len(sortedFiles) |-> <<FileMarker(sortedFiles[i])>> \o BodyOf(sortedFiles[i])]))
        /\ \A i \in 1..Len(sortedFiles) : BodyFollowsMarker(OutputChunk, sortedFiles[i])

\* a successful flatten of three files, two of them with the same experimental
\* pragma line, with a version pragma and two distinct experimental pragmas
C6_Witness ==
    /\ Success
    /\ Len(sortedFiles) = 3
    /\ FilesWithVersion # {}
    /\ Cardinality(ExperimentalSet) = 2
    /\ \E i, j \in 1..Len(sortedFiles) :
            i # j /\ Range(MatchExperimental(ContentsOfSorted(i))) \cap Range(MatchExperimental(ContentsOfSorted(j))) # {}

\* ---------------------------------------------------------------- C7

\* C7: two identifiers of the graph or the visited list that denote the same file
\* are the same identifier.
C7_OneIdentifierPerFile ==
    \A x, y \in Range(visitedFiles) \cup Range(graph.keys) :
        (FileOf(x) # <<>> /\ FileOf(x) = FileOf(y)) => x = y

\* ---------------------------------------------------------------- C8

\* C8: no identifier is appended to visitedFiles, and so traversed, more than once.
C8_VisitedOnce ==
    \A i, j \in 1..Len(visitedFiles) : visitedFiles[i] = visitedFiles[j] => i = j

\* ---------------------------------------------------------------- C9

\* C9: the graph build eventually finishes: flatten leaves the build, for the
\* emission or with an error.
C9_BuildTerminates == <>(pc \in {"emit", "done"})

\* the build has finished over imports that form a cycle
C9_Witness ==
    /\ pc = "done" /\ err.kind = "cycle"
    /\ Len(visitedFiles) >= 3

\* ---------------------------------------------------------------- C10

====
